---- MODULE Spec2Model ----
(***************************************************************************)
(* Nintendo Museum booking assistant: the poll loop of AvailabilityPoller  *)
(* (src/src/poller.py), the callback BookingAssistant.                     *)
(* handle_availability_found (src/src/main.py) and the NotificationManager *)
(* (src/src/notifier.py).                                                  *)
(*                                                                         *)
(* The poll loop is one asyncio coroutine.  Its positions (pc) are the     *)
(* places where it is suspended at an await, plus the entries of the       *)
(* synchronous segments in between.  Other code (stop_polling, task        *)
(* cancellation) runs only while the coroutine is suspended at an await,   *)
(* before it has started, or from inside the callback.                     *)
(*                                                                         *)
(* Time is the wall clock read by datetime.now(), in seconds.  It advances *)
(* while the loop sleeps.                                                  *)
(*                                                                         *)
(* ManagerSpec calls the handler directly, with any set of dates, as the   *)
(* tests do; DispatcherSpec calls a WebhookNotifier on its own.            *)
(* RunSpec follows BookingAssistant.run from its call to its end, with the *)
(* shutdown event; ConfigSpec is the ConfigManager of the MCP server       *)
(* (src/mcp_server/config_manager.py) editing the config file.             *)
(* PageSpec follows check_availability and the pages it opens, SaveSpec    *)
(* follows _save_config step by step.                                      *)
(***************************************************************************)
EXTENDS Integers, Sequences, FiniteSets, TLC

\* ------------------------------------------------------------------------
\* Configuration values and bounds
\* ------------------------------------------------------------------------

\* length of a scripted run of the snapshot source
ScriptLen == 5

\* config.target_dates
Dates == {"2025-09-25", "2025-09-26"}

\* Python None for the two optional timestamps (every real time is >= 0)
None == -1

\* NotificationManager.min_notification_interval as set by __init__
DefaultMinNotificationInterval == 300

\* seconds in an hour, the factor of heartbeat_interval_hours
SecondsPerHour == 3600

\* a run is followed for at most MaxTicks ticks of the poll loop
MaxTicks == 4

\* polling.interval_seconds of the configurations explored (any int >= 1)
PollIntervals == {150, 1800}

\* webhook.heartbeat_interval_hours of the configurations explored (>= 0)
HeartbeatHours == {0, 1}

\* min_notification_interval: the default, and 0 as the tests set it
MinIntervals == {0, DefaultMinNotificationInterval}

\* the date of the scripted runs
ScenarioDates == {"2025-09-25"}

VARIABLES
    pc,                        \* position of start_polling
    running,                   \* AvailabilityPoller._running
    browser,                   \* AvailabilityPoller.browser is set
    cancel_requested,          \* task.cancel() was called on the polling task
    now,                       \* the wall clock
    tick,                      \* number of ticks started so far
    snapshot,                  \* available_dates of the current tick
    previous_available_dates,  \* NotificationManager.previous_available_dates
    last_notification_time,    \* NotificationManager.last_notification_time
    last_heartbeat_time,       \* NotificationManager.last_heartbeat_time
    min_notification_interval, \* NotificationManager.min_notification_interval
    heartbeat_interval_hours,  \* config.webhook.heartbeat_interval_hours
    interval_seconds,          \* config.polling.interval_seconds
    call_now,                  \* local `now` of the manager call in progress
    newly_available_dates,     \* local of notify_if_needed: the payload
    \* observations (never read by the program)
    stop_phase,                \* stop_polling was called: none/idle/run
    notif_attempt,             \* this tick's availability dispatch: none/ok/fail
    tick_payload,              \* payload of this tick's availability dispatch
    tick_posts,                \* POSTs made on this tick, by kind
    hb_evaluated,              \* send_heartbeat_if_needed ran on this tick
    acq_failed,                \* this tick's check_availability hit an exception
    faults,                    \* some delivery failed or some exception was raised
    last_sent,                 \* transport side: time of the last successful POST
    last_hb_sent,              \* the same for the heartbeat POSTs
    last_failed,               \* failed availability dispatch of this tick or
                               \* of the tick before it
    scripted,                  \* the snapshot source plays `script`
    script,                    \* snapshots of a scripted run, by tick
    log,                       \* scripted run: one record per finished tick
    suppressed,                \* dates whose dispatch the grace period
                               \* withheld, available on every call since
    hb_failed,                 \* the last heartbeat dispatch returned False
    prev_call_dates,           \* direct calls: the set of the call before
    disp,                      \* a WebhookNotifier called on its own
    app,                       \* BookingAssistant.run and its shutdown event
    cm,                        \* ConfigManager: the config file, the last call
    pages,                     \* check_availability called on its own
    fs                         \* _save_config: the config path and its backup

vars == <<pc, running, browser, cancel_requested, now, tick, snapshot,
          previous_available_dates, last_notification_time,
          last_heartbeat_time, min_notification_interval,
          heartbeat_interval_hours, interval_seconds, call_now,
          newly_available_dates, stop_phase, notif_attempt, tick_payload,
          tick_posts, hb_evaluated, acq_failed, faults, last_sent,
          last_hb_sent, last_failed, scripted, script,
          log, suppressed, hb_failed, prev_call_dates, disp, app, cm,
          pages, fs>>

config_vars == <<browser, min_notification_interval, heartbeat_interval_hours,
                 interval_seconds, scripted, script>>

manager_vars == <<previous_available_dates, last_notification_time,
                  last_heartbeat_time, last_sent, last_hb_sent>>

tick_obs == <<notif_attempt, tick_payload, tick_posts, hb_evaluated,
              acq_failed>>

\* state of direct callers, which the poll loop never touches
outer_vars == <<prev_call_dates, disp, app, cm, pages, fs>>

\* the awaits at which start_polling can be suspended
AwaitPoints == {"polling", "dispatching", "hb_dispatching", "sleeping",
                "sleeping_err"}

\* ------------------------------------------------------------------------
\* Pure parts of the code
\* ------------------------------------------------------------------------

\* the difference taken the wrong way round
NewlyAvailable_Reversed(available_dates, previous) ==
    previous \ available_dates

\* the whole current set taken as new
NewlyAvailable_Full(available_dates, previous) == available_dates

\* notifier.py:193  available_dates - self.previous_available_dates
NewlyAvailable(available_dates, previous) == available_dates \ previous

\* the grace period test with the limit never applied
RateLimited_Never(t, last, interval) == FALSE

\* the handler going to the heartbeat first
HandlerEntry_HeartbeatFirst == "heartbeat"

\* main.py:67-68  the first call of handle_availability_found is
\* notify_if_needed
HandlerEntry == "callback"

\* the grace period test with an elapsed time equal to the interval held
\* back too
RateLimited_Inclusive(t, last, interval) ==
    last # None /\ t - last <= interval

\* notifier.py:203-207  the grace period test
RateLimited(t, last, interval) == last # None /\ t - last < interval

\* the heartbeat never taken as switched off
HeartbeatDisabled_Never(hours) == FALSE

\* notifier.py:240  `if not self.config.webhook.heartbeat_interval_hours`
HeartbeatDisabled(hours) == hours = 0

\* notifier.py:245
HeartbeatIntervalSeconds(hours) == hours * SecondsPerHour

\* a heartbeat found due at every evaluation
HeartbeatDue_Always(t, last, secs) == TRUE

\* a due heartbeat held back by the grace period of the notifications
HeartbeatDue_RateLimited(t, last, secs) ==
    /\ last = None \/ t - last >= secs
    /\ ~RateLimited(t, last_notification_time, min_notification_interval)

\* notifier.py:248-252
HeartbeatDue(t, last, secs) == last = None \/ t - last >= secs

\* poller.py:183  `if available_dates:` decides whether the callback runs
CallbackInvoked(available_dates) == available_dates # {}

\* the previous set left alone when nothing is new
PreviousAfterNoChange_Kept(available_dates, previous) == previous

\* notifier.py:195-197  nothing new: the previous set still becomes a copy
\* of the current one
PreviousAfterNoChange(available_dates, previous) == available_dates

\* the previous set left alone when the grace period holds a dispatch back
PreviousAfterRateLimit_Kept(available_dates, previous) == previous

\* notifier.py:209-211  "Update previous dates even if we don't notify"
PreviousAfterRateLimit(available_dates, previous) == available_dates

\* the time advanced whether or not the dispatch succeeded
NotificationTimeAfter_Always(success, t, last) == t

\* notifier.py:219-220  `if success: self.last_notification_time = now`
NotificationTimeAfter(success, t, last) == IF success THEN t ELSE last

\* the previous set kept when the dispatch failed
PreviousAfterDispatch_OnSuccess(success, available_dates, previous) ==
    IF success THEN available_dates ELSE previous

\* notifier.py:229-230  "Update state regardless of notification success"
PreviousAfterDispatch(success, available_dates, previous) == available_dates

\* the heartbeat time advanced whether or not the dispatch succeeded
HeartbeatTimeAfter_Always(success, t, last) == t

\* notifier.py:256-257  `if success: self.last_heartbeat_time = now`
HeartbeatTimeAfter(success, t, last) == IF success THEN t ELSE last

\* the loop test ignoring the flag
LoopContinues_Always(r) == TRUE

\* poller.py:177  the test of `while self._running:`
LoopContinues(r) == r

\* what the POST of one dispatcher call can come to: a 2xx response, an
\* error status (raise_for_status), an aiohttp.ClientError of the transport,
\* the timeout of the session, any other Exception
TransportOutcomes ==
    {"ok", "status_error", "client_error", "timeout", "other_error"}

\* the transport error handed on to the caller instead of caught
SendNotificationReturn_Raise(session, available_dates, outcome) ==
    IF ~session THEN "RuntimeError"
    ELSE IF available_dates = {} THEN "False"
    ELSE IF outcome = "ok" THEN "True"
    ELSE IF outcome = "client_error" THEN "ClientError"
    ELSE "False"

\* notifier.py:58-97  what send_notification hands to its caller
SendNotificationReturn(session, available_dates, outcome) ==
    IF ~session THEN "RuntimeError"
    ELSE IF available_dates = {} THEN "False"
    ELSE IF outcome = "ok" THEN "True"
    ELSE "False"

\* a failed POST tried a second time inside the call
SendNotificationPosts_Retry(session, available_dates, outcome) ==
    IF ~session \/ available_dates = {} THEN 0
    ELSE IF outcome = "ok" THEN 1 ELSE 2

\* the POST made for an empty set too
SendNotificationPosts_OnEmpty(session, available_dates, outcome) ==
    IF ~session THEN 0 ELSE 1

\* notifier.py:68-83  the POSTs one send_notification call makes
SendNotificationPosts(session, available_dates, outcome) ==
    IF ~session \/ available_dates = {} THEN 0 ELSE 1

\* notifier.py:132-165  what send_heartbeat hands to its caller
SendHeartbeatReturn(session, outcome) ==
    IF ~session THEN "RuntimeError"
    ELSE IF outcome = "ok" THEN "True"
    ELSE "False"

\* notifier.py:139-152  the POSTs one send_heartbeat call makes
SendHeartbeatPosts(session, outcome) == IF ~session THEN 0 ELSE 1

\* notifier.py:17-20  a WebhookNotifier as __init__ leaves it, never called
NoDispatcherCall ==
    [session |-> FALSE, calls |-> 0, kind |-> "none", dates |-> {},
     outcome |-> "ok", result |-> "none", posts |-> 0, total_posts |-> 0]

\* main.py:93-98  run tests the webhook first, whatever the logging level
TestWebhookWanted(level) == TRUE

\* notifier.py:99-130  what test_webhook hands to its caller
TestWebhookReturn(session, outcome) ==
    IF session /\ outcome = "ok" THEN "True" ELSE "False"

\* run given up when the test of the webhook has failed
AfterWebhookTest_GiveUp(webhook_test_ok) ==
    IF webhook_test_ok THEN "launching" ELSE "done"

\* main.py:100-108  the result of the test is logged, as a warning when it
\* failed, and run goes on to the poller
AfterWebhookTest(webhook_test_ok) == "launching"

\* the CancelledError of a task cancelled in the handler's sleep handed on
\* to the caller of run
AwaitCancelled_Propagates(task_pc) ==
    IF task_pc = "cancelled" THEN "raised" ELSE "returned"

\* main.py:125-130  `await task` after task.cancel(): the task ended by
\* its own `break` or by CancelledError, which is caught and dropped
AwaitCancelled(task_pc) == "returned"

\* poller.py:16-27  a poller entered, check_availability not called yet
NoCheck ==
    [pc |-> "idle", calls |-> 0, open |-> 0, result |-> "none"]

\* the config file as loaded, no backup beside it, _save_config not called
NoSave ==
    [pc |-> "idle", saves |-> 0, path |-> 1, backup |-> 0, old |-> 1,
     new |-> 1, result |-> "none"]

\* the empty string as a URL
NoUrl == [scheme |-> "", netloc |-> "", path |-> <<>>]

\* no config file at config_path
NoFile ==
    [exists |-> FALSE, has_dates |-> FALSE, target_dates |-> <<>>,
     has_webhook |-> FALSE, url |-> NoUrl, event_name |-> "", polling |-> 0]

\* no ConfigManager call made
NoManagerCall ==
    [op |-> "none", dates |-> <<>>, url |-> NoUrl, ok |-> FALSE,
     returned |-> <<>>, before |-> NoFile]

\* no config file, no ConfigManager call made
NoManager == [file |-> NoFile, call |-> NoManagerCall]

\* run has not been called
NoRun ==
    [pc |-> "none", level |-> "INFO", shutdown |-> FALSE, tests |-> 0,
     test_ok |-> FALSE, stops |-> 0, result |-> "none"]

\* no POST made on this tick yet
NoPosts == [notification |-> 0, heartbeat |-> 0]

\* no availability dispatch has failed so far
NoFailure == [tick |-> 0, snap |-> {}, payload |-> {}]

\* the dates whose calendar cell can show the availability class: the
\* target dates and a day that is no target
PageDates == Dates \cup {"2025-09-27"}

\* every available cell of the page reported
check_dates_on_page_AllCells(cells, target_dates) == cells

\* poller.py:90-163  the target dates whose cell is on the page with the
\* availability class
check_dates_on_page(cells, target_dates) ==
    {date \in target_dates : date \in cells}

\* the snapshots check_availability can return on this tick
SourceSnapshots ==
    IF scripted THEN {script[tick]}
    ELSE {check_dates_on_page(cells, Dates) : cells \in SUBSET PageDates}

\* ------------------------------------------------------------------------
\* Initial states
\* ------------------------------------------------------------------------

InitCommon ==
    /\ pc = "idle"
    /\ running = FALSE
    /\ cancel_requested = FALSE
    /\ now = 0
    /\ tick = 0
    /\ snapshot = {}
    /\ previous_available_dates = {}
    /\ last_notification_time = None
    /\ last_heartbeat_time = None
    /\ call_now = None
    /\ newly_available_dates = {}
    /\ stop_phase = "none"
    /\ notif_attempt = "none"
    /\ tick_payload = {}
    /\ tick_posts = NoPosts
    /\ hb_evaluated = FALSE
    /\ acq_failed = FALSE
    /\ faults = FALSE
    /\ last_sent = None
    /\ last_hb_sent = None
    /\ last_failed = NoFailure
    /\ log = <<>>
    /\ suppressed = {}
    /\ hb_failed = FALSE
    /\ prev_call_dates = {}

Init ==
    /\ InitCommon
    /\ browser \in BOOLEAN
    /\ min_notification_interval \in MinIntervals
    /\ heartbeat_interval_hours \in HeartbeatHours
    /\ interval_seconds \in PollIntervals
    /\ scripted = FALSE
    /\ script = <<>>
    /\ disp = NoDispatcherCall
    /\ cm = NoManager
    /\ pages = NoCheck
    /\ fs = NoSave
    /\ app = NoRun

\* ------------------------------------------------------------------------
\* AvailabilityPoller.start_polling
\* ------------------------------------------------------------------------

\* poller.py:172  self._running = True, then the first `while` test
StartPolling ==
    /\ pc = "idle"
    /\ running' = TRUE
    /\ pc' = "loop"
    /\ UNCHANGED <<cancel_requested, now, tick, snapshot, call_now,
                   newly_available_dates, stop_phase, faults, log>>
    /\ UNCHANGED <<config_vars, outer_vars, suppressed, hb_failed,
                   manager_vars, tick_obs, last_failed>>

\* poller.py:177  `while self._running:`; a true test starts check_availability
LoopTest ==
    /\ pc = "loop"
    /\ IF LoopContinues(running)
       THEN /\ tick < IF scripted THEN Len(script) ELSE MaxTicks
            /\ tick' = tick + 1
            /\ pc' = "polling"
            /\ notif_attempt' = "none"
            /\ tick_payload' = {}
            /\ tick_posts' = NoPosts
            /\ hb_evaluated' = FALSE
            /\ acq_failed' = FALSE
       ELSE /\ pc' = "stopped"
            /\ UNCHANGED <<tick, tick_obs>>
    /\ UNCHANGED <<running, cancel_requested, now, snapshot, call_now,
                   newly_available_dates, stop_phase, faults, log>>
    /\ UNCHANGED <<config_vars, outer_vars, suppressed, hb_failed,
                   manager_vars, last_failed>>

\* poller.py:42-88 and 179-187: check_availability returns, then the
\* `if available_dates:` test of the loop
CheckAvailability ==
    /\ pc = "polling"
    /\ IF ~browser
       THEN \* poller.py:52-53 RuntimeError, caught at poller.py:195
            /\ pc' = "sleeping_err"
            /\ faults' = TRUE
            /\ UNCHANGED <<snapshot, acq_failed, suppressed>>
       ELSE \/ \E available_dates \in SourceSnapshots :
                 /\ snapshot' = available_dates
                 /\ suppressed' = suppressed \cap available_dates
                 /\ pc' = IF CallbackInvoked(available_dates)
                          THEN HandlerEntry ELSE "sleeping"
                 /\ UNCHANGED <<acq_failed, faults>>
            \/ \* poller.py:86-88 an exception inside the try: return set()
               /\ snapshot' = {}
               /\ suppressed' = {}
               /\ acq_failed' = TRUE
               /\ faults' = TRUE
               /\ pc' = IF CallbackInvoked({}) THEN HandlerEntry ELSE "sleeping"
    /\ UNCHANGED <<running, cancel_requested, now, tick, call_now,
                   newly_available_dates, stop_phase, notif_attempt,
                   tick_payload, tick_posts, hb_evaluated, log>>
    /\ UNCHANGED <<config_vars, outer_vars, hb_failed,
                   manager_vars, last_failed>>

\* ------------------------------------------------------------------------
\* BookingAssistant.handle_availability_found and the NotificationManager
\* ------------------------------------------------------------------------

\* main.py:68 -> notifier.py:178-217: notify_if_needed up to the POST
NotifyIfNeeded ==
    /\ pc = "callback"
    /\ LET newly == NewlyAvailable(snapshot, previous_available_dates) IN
       IF newly = {}
       THEN \* notifier.py:195-199
            /\ previous_available_dates' =
                   PreviousAfterNoChange(snapshot, previous_available_dates)
            /\ pc' = "heartbeat"
            /\ UNCHANGED <<call_now, newly_available_dates, faults,
                           suppressed>>
       ELSE IF RateLimited(now, last_notification_time,
                           min_notification_interval)
       THEN \* notifier.py:203-213
            /\ previous_available_dates' =
                   PreviousAfterRateLimit(snapshot, previous_available_dates)
            /\ pc' = "heartbeat"
            /\ suppressed' = suppressed \cup newly
            /\ UNCHANGED <<call_now, newly_available_dates, faults>>
       ELSE \* notifier.py:216 `async with WebhookNotifier(self.config)`
            \/ /\ call_now' = now
               /\ newly_available_dates' = newly
               /\ pc' = "dispatching"
               /\ UNCHANGED <<previous_available_dates, faults,
                              suppressed>>
            \/ \* __aenter__ raises: the exception leaves the callback
               /\ pc' = "sleeping_err"
               /\ faults' = TRUE
               /\ UNCHANGED <<call_now, newly_available_dates,
                              previous_available_dates, suppressed>>
    /\ UNCHANGED <<running, cancel_requested, now, tick, snapshot, stop_phase,
                   log, last_notification_time, last_heartbeat_time,
                   last_sent, last_hb_sent, last_failed>>
    /\ UNCHANGED <<config_vars, outer_vars, tick_obs, hb_failed>>

\* notifier.py:217-231: send_notification returned `success`; then the
\* `async with` block is left (WebhookNotifier.__aexit__ closes the session)
SendNotification ==
    /\ pc = "dispatching"
    /\ \E outcome \in TransportOutcomes, close_ok \in BOOLEAN :
       LET success == SendNotificationReturn(TRUE, newly_available_dates,
                                             outcome) = "True" IN
         /\ last_notification_time' =
                NotificationTimeAfter(success, call_now,
                                      last_notification_time)
         /\ previous_available_dates' =
                PreviousAfterDispatch(success, snapshot,
                                      previous_available_dates)
         /\ last_sent' = IF success THEN call_now ELSE last_sent
         /\ last_failed' =
                IF success THEN last_failed
                ELSE [tick |-> tick, snap |-> snapshot,
                      payload |-> newly_available_dates]
         /\ notif_attempt' = IF success THEN "ok" ELSE "fail"
         /\ tick_payload' = newly_available_dates
         /\ tick_posts' =
                [tick_posts EXCEPT !.notification = @ +
                     SendNotificationPosts(TRUE, newly_available_dates,
                                           outcome)]
         /\ faults' = (faults \/ ~success \/ ~close_ok)
         /\ pc' = IF close_ok THEN "heartbeat" ELSE "sleeping_err"
    /\ call_now' = None
    /\ newly_available_dates' = {}
    /\ UNCHANGED <<running, cancel_requested, now, tick, snapshot,
                   stop_phase, hb_evaluated, acq_failed,
                   last_heartbeat_time, last_hb_sent, log>>
    /\ UNCHANGED <<config_vars, outer_vars, suppressed, hb_failed>>

\* main.py:80 -> notifier.py:233-253: send_heartbeat_if_needed up to the POST
SendHeartbeatIfNeeded ==
    /\ pc = "heartbeat"
    /\ hb_evaluated' = TRUE
    /\ IF HeartbeatDisabled(heartbeat_interval_hours)
       THEN /\ pc' = "sleeping"
            /\ UNCHANGED <<call_now, faults>>
       ELSE IF HeartbeatDue(now, last_heartbeat_time,
                    HeartbeatIntervalSeconds(heartbeat_interval_hours))
       THEN \/ /\ call_now' = now
               /\ pc' = "hb_dispatching"
               /\ UNCHANGED faults
            \/ \* __aenter__ raises
               /\ pc' = "sleeping_err"
               /\ faults' = TRUE
               /\ UNCHANGED call_now
       ELSE /\ pc' = "sleeping"
            /\ UNCHANGED <<call_now, faults>>
    /\ UNCHANGED <<running, cancel_requested, now, tick, snapshot,
                   newly_available_dates, stop_phase, notif_attempt,
                   tick_payload, tick_posts, acq_failed, log>>
    /\ UNCHANGED <<config_vars, outer_vars, suppressed, hb_failed,
                   manager_vars, last_failed>>

\* notifier.py:254-262: send_heartbeat returned `success`
SendHeartbeat ==
    /\ pc = "hb_dispatching"
    /\ \E outcome \in TransportOutcomes, close_ok \in BOOLEAN :
       LET success == SendHeartbeatReturn(TRUE, outcome) = "True" IN
         /\ last_heartbeat_time' =
                HeartbeatTimeAfter(success, call_now, last_heartbeat_time)
         /\ last_hb_sent' = IF success THEN call_now ELSE last_hb_sent
         /\ hb_failed' = ~success
         /\ tick_posts' =
                [tick_posts EXCEPT !.heartbeat = @ +
                     SendHeartbeatPosts(TRUE, outcome)]
         /\ faults' = (faults \/ ~success \/ ~close_ok)
         /\ pc' = IF close_ok THEN "sleeping" ELSE "sleeping_err"
    /\ call_now' = None
    /\ UNCHANGED <<running, cancel_requested, now, tick, snapshot,
                   newly_available_dates, stop_phase,
                   previous_available_dates, last_notification_time,
                   last_sent, last_failed, log>>
    /\ UNCHANGED <<config_vars, outer_vars, notif_attempt, tick_payload,
                   hb_evaluated, acq_failed, suppressed>>

\* one record of a scripted run, written when the tick's sleep ends
TickRecord ==
    [snap |-> snapshot, notif |-> notif_attempt, payload |-> tick_payload,
     aborted |-> pc = "sleeping_err" /\ notif_attempt = "none"
                 /\ ~hb_evaluated]

\* poller.py:190  asyncio.sleep(interval_seconds) returns
Sleep ==
    /\ pc = "sleeping"
    /\ now' = now + interval_seconds
    /\ log' = IF scripted THEN Append(log, TickRecord) ELSE log
    /\ pc' = "loop"
    /\ last_failed' = IF last_failed.tick = tick THEN last_failed
                                                   ELSE NoFailure
    /\ UNCHANGED <<running, cancel_requested, tick, snapshot, call_now,
                   newly_available_dates, stop_phase, faults>>
    /\ UNCHANGED <<config_vars, outer_vars, suppressed, hb_failed,
                   manager_vars, tick_obs>>

\* the handler leaving the loop instead of sleeping and going on
SleepAfterError_Break ==
    /\ pc = "sleeping_err"
    /\ pc' = "stopped"
    /\ UNCHANGED <<running, cancel_requested, now, tick, snapshot, call_now,
                   newly_available_dates, stop_phase, faults, log>>
    /\ UNCHANGED <<config_vars, outer_vars, suppressed, hb_failed,
                   manager_vars, tick_obs, last_failed>>

\* the handler going back to the loop test without its sleep
SleepAfterError_NoSleep ==
    /\ pc = "sleeping_err"
    /\ pc' = "loop"
    /\ UNCHANGED <<running, cancel_requested, now, tick, snapshot, call_now,
                   newly_available_dates, stop_phase, faults, log>>
    /\ UNCHANGED <<config_vars, outer_vars, suppressed, hb_failed,
                   manager_vars, tick_obs, last_failed>>

\* poller.py:195-198  the sleep of the `except Exception` handler returns
SleepAfterError ==
    /\ pc = "sleeping_err"
    /\ now' = now + interval_seconds
    /\ log' = IF scripted THEN Append(log, TickRecord) ELSE log
    /\ pc' = "loop"
    /\ last_failed' = IF last_failed.tick = tick THEN last_failed
                                                   ELSE NoFailure
    /\ UNCHANGED <<running, cancel_requested, tick, snapshot, call_now,
                   newly_available_dates, stop_phase, faults>>
    /\ UNCHANGED <<config_vars, outer_vars, suppressed, hb_failed,
                   manager_vars, tick_obs>>

\* poller.py:202-205  stop_polling, called by other code
StopPolling ==
    /\ pc \in AwaitPoints \cup {"idle", "callback"}
    /\ stop_phase # "run"
    /\ running' = FALSE
    /\ stop_phase' = IF pc = "idle" THEN "idle" ELSE "run"
    /\ UNCHANGED <<pc, cancel_requested, now, tick, snapshot, call_now,
                   newly_available_dates, faults, log>>
    /\ UNCHANGED <<config_vars, outer_vars, suppressed, hb_failed,
                   manager_vars, tick_obs, last_failed>>

\* main.py:125-126  task.cancel() on the polling task: CancelledError is
\* thrown into the coroutine at the await where it is suspended.
\* poller.py:192-194 catches it inside the try and breaks; in the handler's
\* sleep (poller.py:198) and before the first step it ends the task
Cancel ==
    /\ pc \in AwaitPoints \cup {"idle"}
    /\ cancel_requested' = TRUE
    /\ pc' = IF pc \in {"idle", "sleeping_err"} THEN "cancelled" ELSE "stopped"
    /\ UNCHANGED <<running, now, tick, snapshot, call_now,
                   newly_available_dates, stop_phase, faults, log>>
    /\ UNCHANGED <<config_vars, outer_vars, suppressed, hb_failed,
                   manager_vars, tick_obs, last_failed>>

\* the steps of the start_polling coroutine itself
LoopStep ==
    \/ StartPolling
    \/ LoopTest
    \/ CheckAvailability
    \/ NotifyIfNeeded
    \/ SendNotification
    \/ SendHeartbeatIfNeeded
    \/ SendHeartbeat
    \/ Sleep
    \/ SleepAfterError

Next ==
    \/ LoopStep
    \/ StopPolling
    \/ Cancel

Spec == Init /\ [][Next]_vars

\* the event loop resumes a coroutine whose await has completed, and every
\* await of the loop (page load, POST, sleep) is bounded by a timeout
FairSpec == Spec /\ WF_vars(LoopStep)

\* ------------------------------------------------------------------------
\* Scripted runs: the snapshot source plays a fixed sequence of snapshots
\* ------------------------------------------------------------------------

Scripts == [1..ScriptLen -> SUBSET ScenarioDates]

ScenarioInit ==
    /\ InitCommon
    /\ browser = TRUE
    /\ min_notification_interval \in MinIntervals
    /\ heartbeat_interval_hours \in HeartbeatHours
    /\ interval_seconds = 150
    /\ scripted = TRUE
    /\ script \in Scripts
    /\ disp = NoDispatcherCall
    /\ cm = NoManager
    /\ pages = NoCheck
    /\ fs = NoSave
    /\ app = NoRun

ScenarioSpec == ScenarioInit /\ [][LoopStep]_vars

\* ------------------------------------------------------------------------
\* Direct calls: handle_availability_found called by other code than the
\* poll loop, with any set of dates and at any time, as the tests call it
\* ------------------------------------------------------------------------

\* direct calls followed in a run
MaxCalls == 4

\* seconds between two direct calls
CallGaps == {100, 201}

\* main.py:54-68  the handler is entered with `available_dates`; the call
\* before it has returned, or has raised
CallHandler ==
    /\ pc \in {"idle", "sleeping", "sleeping_err"}
    /\ tick < MaxCalls
    /\ \E available_dates \in SUBSET Dates, gap \in CallGaps :
         /\ now' = now + gap
         /\ snapshot' = available_dates
         /\ suppressed' = suppressed \cap available_dates
    /\ prev_call_dates' = snapshot
    /\ tick' = tick + 1
    /\ notif_attempt' = "none"
    /\ tick_payload' = {}
    /\ tick_posts' = NoPosts
    /\ hb_evaluated' = FALSE
    /\ acq_failed' = FALSE
    /\ pc' = HandlerEntry
    /\ last_failed' = IF last_failed.tick = tick THEN last_failed
                                                   ELSE NoFailure
    /\ UNCHANGED <<running, cancel_requested, call_now,
                   newly_available_dates, stop_phase, faults, log,
                   hb_failed, disp, app, cm, pages, fs>>
    /\ UNCHANGED <<config_vars, manager_vars>>

ManagerInit ==
    /\ InitCommon
    /\ browser = TRUE
    /\ min_notification_interval \in MinIntervals
    /\ heartbeat_interval_hours \in HeartbeatHours
    /\ interval_seconds = 150
    /\ scripted = FALSE
    /\ script = <<>>
    /\ disp = NoDispatcherCall
    /\ cm = NoManager
    /\ pages = NoCheck
    /\ fs = NoSave
    /\ app = NoRun

ManagerNext ==
    \/ CallHandler
    \/ NotifyIfNeeded
    \/ SendNotification
    \/ SendHeartbeatIfNeeded
    \/ SendHeartbeat

ManagerSpec == ManagerInit /\ [][ManagerNext]_vars

\* ------------------------------------------------------------------------
\* The dispatcher on its own: a WebhookNotifier constructed and called
\* ------------------------------------------------------------------------

\* dispatcher calls followed in a run
MaxDirectCalls == 3

\* everything but the dispatcher
program_vars == <<pc, running, cancel_requested, now, tick, snapshot,
                  call_now, newly_available_dates, stop_phase, faults, log,
                  last_failed, suppressed, hb_failed, prev_call_dates,
                  app, cm, pages, fs, config_vars, manager_vars, tick_obs>>

\* notifier.py:22-27  __aenter__ opens the session
NotifierEnter ==
    /\ ~disp.session
    /\ disp' = [disp EXCEPT !.session = TRUE]
    /\ UNCHANGED program_vars

\* notifier.py:58-97  one call of send_notification, made inside the
\* `async with` block as every caller makes it
DirectSendNotification ==
    /\ disp.session
    /\ disp.calls < MaxDirectCalls
    /\ \E available_dates \in SUBSET Dates, outcome \in TransportOutcomes :
         disp' = [disp EXCEPT
                    !.calls = @ + 1,
                    !.kind = "send_notification",
                    !.dates = available_dates,
                    !.outcome = outcome,
                    !.result = SendNotificationReturn(disp.session,
                                   available_dates, outcome),
                    !.posts = SendNotificationPosts(disp.session,
                                   available_dates, outcome),
                    !.total_posts = @ + SendNotificationPosts(disp.session,
                                   available_dates, outcome)]
    /\ UNCHANGED program_vars

\* notifier.py:132-165  one call of send_heartbeat, inside `async with`
DirectSendHeartbeat ==
    /\ disp.session
    /\ disp.calls < MaxDirectCalls
    /\ \E outcome \in TransportOutcomes :
         disp' = [disp EXCEPT
                    !.calls = @ + 1,
                    !.kind = "send_heartbeat",
                    !.dates = {},
                    !.outcome = outcome,
                    !.result = SendHeartbeatReturn(disp.session, outcome),
                    !.posts = SendHeartbeatPosts(disp.session, outcome),
                    !.total_posts = @ + SendHeartbeatPosts(disp.session,
                                                           outcome)]
    /\ UNCHANGED program_vars

DispatcherInit ==
    /\ InitCommon
    /\ browser = TRUE
    /\ min_notification_interval = DefaultMinNotificationInterval
    /\ heartbeat_interval_hours = 0
    /\ interval_seconds = 150
    /\ scripted = FALSE
    /\ script = <<>>
    /\ disp = NoDispatcherCall
    /\ cm = NoManager
    /\ pages = NoCheck
    /\ fs = NoSave
    /\ app = NoRun

DispatcherNext ==
    \/ NotifierEnter
    \/ DirectSendNotification
    \/ DirectSendHeartbeat

DispatcherSpec == DispatcherInit /\ [][DispatcherNext]_vars

\* ------------------------------------------------------------------------
\* BookingAssistant.run: the startup webhook test, the polling task and the
\* shutdown event
\* ------------------------------------------------------------------------

\* config.logging.level of the configurations explored
LogLevels == {"INFO", "DEBUG"}

\* everything run leaves to the polling task
task_vars == <<pc, running, cancel_requested, now, tick, snapshot, call_now,
               newly_available_dates, stop_phase, faults, log, last_failed,
               suppressed, hb_failed, prev_call_dates, disp, cm, pages, fs,
               min_notification_interval, heartbeat_interval_hours,
               interval_seconds, scripted, script, manager_vars, tick_obs>>

\* run ends: it returns, or an exception leaves it (main.py:138-140)
RunEnds(result) == [app EXCEPT !.pc = "done", !.result = result]

\* main.py:47-49  the signal handler sets the shutdown event
SetShutdown ==
    /\ app.pc \notin {"none", "done"}
    /\ ~app.shutdown
    /\ app' = [app EXCEPT !.shutdown = TRUE]
    /\ UNCHANGED <<task_vars, browser>>

\* main.py:92-97  run starts: the WebhookNotifier of the test is entered
RunStart ==
    /\ app.pc = "start"
    /\ IF TestWebhookWanted(app.level)
       THEN \/ app' = [app EXCEPT !.pc = "testing"]
            \/ \* __aenter__ raises
               app' = RunEnds("raised")
       ELSE app' = [app EXCEPT !.pc = "launching"]
    /\ UNCHANGED <<task_vars, browser>>

\* main.py:98-105  test_webhook returns, the `async with` block is left
RunTestWebhook ==
    /\ app.pc = "testing"
    /\ \E outcome \in TransportOutcomes, close_ok \in BOOLEAN :
         LET tested == [app EXCEPT
                          !.tests = @ + 1,
                          !.test_ok = TestWebhookReturn(TRUE, outcome) = "True"]
         IN  app' = IF ~close_ok
                    THEN [tested EXCEPT !.pc = "done", !.result = "raised"]
                    ELSE IF AfterWebhookTest(tested.test_ok) = "launching"
                    THEN [tested EXCEPT !.pc = "launching"]
                    ELSE [tested EXCEPT !.pc = "done",
                                        !.result = "returned"]
    /\ UNCHANGED <<task_vars, browser>>

\* main.py:108-122  the poller is entered (poller.py:23-27 launches the
\* browser), the two tasks are created and run waits for the first to end
RunEnterPoller ==
    /\ app.pc = "launching"
    /\ \/ /\ browser' = TRUE
          /\ app' = [app EXCEPT !.pc = "waiting"]
       \/ \* the launch raises
          /\ app' = RunEnds("raised")
          /\ UNCHANGED browser
    /\ UNCHANGED task_vars

\* the polling task runs while run waits
RunPolling ==
    /\ app.pc = "waiting"
    /\ LoopStep

\* main.py:120-130  the shutdown task has ended: the polling task is
\* pending, it is cancelled and awaited
RunCancelPending ==
    /\ app.pc = "waiting"
    /\ app.shutdown
    /\ ~cancel_requested
    /\ pc \in AwaitPoints
    /\ Cancel

\* main.py:132-142  stop_polling (poller.py:202-205), the poller is left
\* (poller.py:29-40 swallows the errors of closing), run returns
RunStopPolling ==
    /\ app.pc = "waiting"
    /\ cancel_requested
    /\ IF AwaitCancelled(pc) = "returned"
       THEN /\ running' = FALSE
            /\ app' = [app EXCEPT !.pc = "done", !.result = "returned",
                                  !.stops = @ + 1]
       ELSE /\ app' = RunEnds("raised")
            /\ UNCHANGED running
    /\ UNCHANGED <<pc, cancel_requested, now, tick, snapshot, call_now,
                   newly_available_dates, stop_phase, faults, log,
                   last_failed, suppressed, hb_failed, prev_call_dates, disp,
                   cm, pages, fs, config_vars, manager_vars, tick_obs>>

RunInit ==
    /\ InitCommon
    /\ browser = FALSE
    /\ min_notification_interval = DefaultMinNotificationInterval
    /\ heartbeat_interval_hours = 1
    /\ interval_seconds = 1800
    /\ scripted = FALSE
    /\ script = <<>>
    /\ disp = NoDispatcherCall
    /\ cm = NoManager
    /\ pages = NoCheck
    /\ fs = NoSave
    /\ app \in [pc : {"start"}, level : LogLevels, shutdown : {FALSE},
                 tests : {0}, test_ok : {FALSE}, stops : {0},
                 result : {"none"}]

\* the steps of run itself
RunStep ==
    \/ RunStart
    \/ RunTestWebhook
    \/ RunEnterPoller
    \/ RunCancelPending
    \/ RunStopPolling

RunNext ==
    \/ RunStep
    \/ RunPolling
    \/ SetShutdown

RunSpec == RunInit /\ [][RunNext]_vars

\* the event loop resumes run and the polling task when their awaits end;
\* run, ready to go on since the shutdown task ended, is resumed while the
\* polling task is at one of its awaits
FairRunSpec ==
    /\ RunSpec
    /\ WF_vars(RunStep)
    /\ WF_vars(RunPolling)
    /\ SF_vars(RunCancelPending)

\* ------------------------------------------------------------------------
\* The MCP server's ConfigManager and the config file it edits
\* ------------------------------------------------------------------------

\* A date string "YYYY-MM-DD" is the number YYYYMMDD, so that the order of
\* the numbers is the order of the strings; a string that is not of that
\* form is a negative number.
NotInFormat == 0 - 2

\* the strings given as dates: three dates and a day that does not exist
DateTokens == {20250101, 20250102, 20250301, 20250230}

\* the lists given to the ConfigManager
DateLists == UNION {[1..n -> DateTokens] : n \in 0..2}

\* the lists of a config file written by hand: none, sorted, unsorted, with
\* a duplicate, with a string that is no date
FileDateLists ==
    {<<>>, <<20250101, 20250102>>, <<20250102, 20250101>>,
     <<20250101, 20250101>>, <<NotInFormat>>}

IftttUrl ==
    [scheme |-> "https", netloc |-> "maker.ifttt.com",
     path |-> <<"trigger", "test", "with", "key", "test_key">>]

\* the URLs given to set_ifttt_webhook_url
UrlTokens ==
    {IftttUrl,
     [scheme |-> "https", netloc |-> "maker.ifttt.com",
      path |-> <<"trigger", "test", "with", "key", "new_key">>],
     [scheme |-> "https", netloc |-> "maker.ifttt.com",
      path |-> <<"trigger", "test">>],
     [scheme |-> "https", netloc |-> "maker.ifttt.com",
      path |-> <<"use", "test", "with", "key", "test_key">>],
     [scheme |-> "https", netloc |-> "example.com",
      path |-> <<"not-ifttt">>],
     [scheme |-> "", netloc |-> "", path |-> <<"maker.ifttt.com">>],
     NoUrl}

Range(s) == {s[i] : i \in 1..Len(s)}

\* calendar of datetime.strptime
DaysInMonth(y, m) ==
    IF m \in {4, 6, 9, 11} THEN 30
    ELSE IF m # 2 THEN 31
    ELSE IF (y % 4 = 0 /\ y % 100 # 0) \/ y % 400 = 0 THEN 29
    ELSE 28

\* validators.py:9-31  the form \d{4}-\d{2}-\d{2}, then a date that exists
validate_date_format(d) ==
    IF d < 0 \/ d > 99999999 THEN FALSE
    ELSE LET y == d \div 10000
             m == (d \div 100) % 100
             dd == d % 100
         IN  y >= 1 /\ m \in 1..12 /\ dd \in 1..DaysInMonth(y, m)

\* config.py:105-122  Config.validate_target_dates of the assistant: at
\* least one date, each parsed by strptime("%Y-%m-%d")
validate_target_dates(v) ==
    /\ v # <<>>
    /\ \A i \in 1..Len(v) :
         /\ v[i] >= 0
         /\ v[i] \div 10000 \in 1..9999
         /\ (v[i] \div 100) % 100 \in 1..12
         /\ v[i] % 100 \in
              1..DaysInMonth(v[i] \div 10000, (v[i] \div 100) % 100)

\* sorted(list(set(...)))
RECURSIVE Sorted(_)
Sorted(S) ==
    IF S = {} THEN <<>>
    ELSE LET least == CHOOSE x \in S : \A y \in S : x <= y
         IN  <<least>> \o Sorted(S \ {least})

\* the valid dates in the order given, duplicates kept
validate_dates_list_Unsorted(dates) ==
    IF \E i \in 1..Len(dates) : ~validate_date_format(dates[i])
    THEN [ok |-> FALSE, dates |-> <<>>]
    ELSE [ok |-> TRUE, dates |-> dates]

\* the invalid dates dropped, the others accepted
validate_dates_list_DropInvalid(dates) ==
    [ok |-> TRUE,
     dates |-> Sorted({d \in Range(dates) : validate_date_format(d)})]

\* validators.py:34-68
validate_dates_list(dates) ==
    IF dates = <<>> THEN [ok |-> TRUE, dates |-> <<>>]
    ELSE IF \E i \in 1..Len(dates) : ~validate_date_format(dates[i])
    THEN [ok |-> FALSE, dates |-> <<>>]
    ELSE [ok |-> TRUE, dates |-> Sorted(Range(dates))]

\* 'maker.ifttt.com' in parsed.netloc
NetlocHasIfttt(netloc) == netloc = "maker.ifttt.com"

\* validators.py:71-108
validate_ifttt_webhook_url(url) ==
    /\ url # NoUrl
    /\ url.scheme # "" /\ url.netloc # ""
    /\ NetlocHasIfttt(url.netloc)
    /\ Len(url.path) >= 2 /\ url.path[1] = "trigger"
    /\ \E i \in 1..(Len(url.path) - 2) :
         url.path[i] = "with" /\ url.path[i + 1] = "key"

\* config_manager.py:27-46  the file is there and holds a mapping
load_config(file) == file.exists

\* config_manager.py:48-78  the new content written, or, on an exception,
\* the backup put back
save_config(file, config, save_ok) ==
    IF save_ok THEN [ok |-> TRUE, file |-> config]
    ELSE [ok |-> FALSE, file |-> file]

\* the config reduced to its target dates
WithTargetDates_Only(config, dates) ==
    [NoFile EXCEPT !.exists = TRUE, !.has_dates = TRUE,
                   !.target_dates = dates]

\* config_manager.py:119-120  config['target_dates'] = processed_dates
WithTargetDates(config, dates) ==
    [config EXCEPT !.has_dates = TRUE, !.target_dates = dates]

\* config_manager.py:225-230  the webhook section made if missing, its url
WithWebhookUrl(config, url) ==
    [config EXCEPT !.has_webhook = TRUE, !.url = url]

\* config_manager.py:80-97  the list of the file as strings, [] without the
\* key
get_target_dates(file) ==
    IF ~load_config(file) THEN [ok |-> FALSE, dates |-> <<>>]
    ELSE [ok |-> TRUE, dates |-> file.target_dates]

\* config_manager.py:99-123
set_target_dates(file, dates, save_ok) ==
    LET v == validate_dates_list(dates)
    IN  IF ~v.ok THEN [ok |-> FALSE, file |-> file]
        ELSE IF ~load_config(file) THEN [ok |-> FALSE, file |-> file]
        ELSE save_config(file, WithTargetDates(file, v.dates), save_ok)

\* the new dates stored in place of the current ones
add_target_dates_Replace(file, new_dates, save_ok) ==
    LET v == validate_dates_list(new_dates)
        w == set_target_dates(file, v.dates, save_ok)
    IN  IF ~v.ok \/ ~w.ok
        THEN [ok |-> FALSE, file |-> w.file, dates |-> <<>>]
        ELSE [ok |-> TRUE, file |-> w.file, dates |-> v.dates]

\* config_manager.py:125-151
add_target_dates(file, new_dates, save_ok) ==
    LET cur == get_target_dates(file)
        v == validate_dates_list(cur.dates \o new_dates)
        w == set_target_dates(file, v.dates, save_ok)
    IN  IF ~cur.ok THEN [ok |-> FALSE, file |-> file, dates |-> <<>>]
        ELSE IF ~v.ok THEN [ok |-> FALSE, file |-> file, dates |-> <<>>]
        ELSE IF ~w.ok THEN [ok |-> FALSE, file |-> w.file, dates |-> <<>>]
        ELSE [ok |-> TRUE, file |-> w.file, dates |-> v.dates]

\* config_manager.py:153-176
remove_target_dates(file, dates_to_remove, save_ok) ==
    LET cur == get_target_dates(file)
        Kept(date) == date \notin Range(dates_to_remove)
        remaining_dates == SelectSeq(cur.dates, Kept)
        w == set_target_dates(file, remaining_dates, save_ok)
    IN  IF ~cur.ok THEN [ok |-> FALSE, file |-> file, dates |-> <<>>]
        ELSE IF ~w.ok THEN [ok |-> FALSE, file |-> w.file, dates |-> <<>>]
        ELSE [ok |-> TRUE, file |-> w.file, dates |-> remaining_dates]

\* config_manager.py:178-185
clear_target_dates(file, save_ok) == set_target_dates(file, <<>>, save_ok)

\* config_manager.py:205-233
set_ifttt_webhook_url(file, url, save_ok) ==
    IF ~validate_ifttt_webhook_url(url) THEN [ok |-> FALSE, file |-> file]
    ELSE IF ~load_config(file) THEN [ok |-> FALSE, file |-> file]
    ELSE save_config(file, WithWebhookUrl(file, url), save_ok)

\* everything but the ConfigManager and its file
service_vars == <<pc, running, cancel_requested, now, tick, snapshot,
                  call_now, newly_available_dates, stop_phase, faults, log,
                  last_failed, suppressed, hb_failed, prev_call_dates, disp,
                  app, pages, fs, config_vars, manager_vars, tick_obs>>

\* one call made: what it was given, what it returned, the file before it
\* and after it
ManagerCalled(op, dates, url, ok, returned, file) ==
    /\ cm' = [file |-> file,
              call |-> [op |-> op, dates |-> dates, url |-> url, ok |-> ok,
                        returned |-> returned, before |-> cm.file]]
    /\ UNCHANGED service_vars

GetTargetDates ==
    LET r == get_target_dates(cm.file)
    IN  ManagerCalled("get_target_dates", <<>>, NoUrl, r.ok, r.dates,
                      cm.file)

SetTargetDates ==
    \E dates \in DateLists, save_ok \in BOOLEAN :
      LET r == set_target_dates(cm.file, dates, save_ok)
      IN  ManagerCalled("set_target_dates", dates, NoUrl, r.ok, <<>>,
                        r.file)

AddTargetDates ==
    \E new_dates \in DateLists, save_ok \in BOOLEAN :
      LET r == add_target_dates(cm.file, new_dates, save_ok)
      IN  ManagerCalled("add_target_dates", new_dates, NoUrl, r.ok,
                        r.dates, r.file)

RemoveTargetDates ==
    \E dates_to_remove \in DateLists, save_ok \in BOOLEAN :
      LET r == remove_target_dates(cm.file, dates_to_remove, save_ok)
      IN  ManagerCalled("remove_target_dates", dates_to_remove, NoUrl,
                        r.ok, r.dates, r.file)

ClearTargetDates ==
    \E save_ok \in BOOLEAN :
      LET r == clear_target_dates(cm.file, save_ok)
      IN  ManagerCalled("clear_target_dates", <<>>, NoUrl, r.ok, <<>>,
                        r.file)

SetIftttWebhookUrl ==
    \E url \in UrlTokens, save_ok \in BOOLEAN :
      LET r == set_ifttt_webhook_url(cm.file, url, save_ok)
      IN  ManagerCalled("set_ifttt_webhook_url", <<>>, url, r.ok, <<>>,
                        r.file)

\* the config files a ConfigManager is constructed on: missing, or a
\* mapping with or without target_dates and with or without a webhook
\* section
ConfigFiles ==
    {NoFile} \cup
    {[exists |-> TRUE, has_dates |-> h[1], target_dates |-> h[2],
      has_webhook |-> w, url |-> IF w THEN IftttUrl ELSE NoUrl,
      event_name |-> IF w THEN "nintendo_museum_available" ELSE "",
      polling |-> 10] :
       h \in {<<FALSE, <<>>>>} \cup ({TRUE} \X FileDateLists),
       w \in BOOLEAN}

ConfigInit ==
    /\ InitCommon
    /\ browser = FALSE
    /\ min_notification_interval = DefaultMinNotificationInterval
    /\ heartbeat_interval_hours = 0
    /\ interval_seconds = 150
    /\ scripted = FALSE
    /\ script = <<>>
    /\ disp = NoDispatcherCall
    /\ app = NoRun
    /\ cm \in [file : ConfigFiles, call : {NoManagerCall}]
    /\ pages = NoCheck
    /\ fs = NoSave

ConfigNext ==
    \/ GetTargetDates
    \/ SetTargetDates
    \/ AddTargetDates
    \/ RemoveTargetDates
    \/ ClearTargetDates
    \/ SetIftttWebhookUrl

ConfigSpec == ConfigInit /\ [][ConfigNext]_vars

\* ------------------------------------------------------------------------
\* check_availability on its own: the pages it opens in the browser
\* ------------------------------------------------------------------------

\* calls of check_availability followed in a run
MaxChecks == 5

\* everything of the assistant and its dispatcher
assistant_vars == <<pc, running, cancel_requested, now, tick, snapshot,
                    call_now, newly_available_dates, stop_phase, faults, log,
                    last_failed, suppressed, hb_failed, prev_call_dates,
                    disp, app, config_vars, manager_vars, tick_obs>>

\* poller.py:86-88  an exception inside the try: logged, set() returned
CheckFails == [pages EXCEPT !.pc = "idle", !.result = "empty"]

\* poller.py:42-55  check_availability is called, the browser is there
CheckStart ==
    /\ pages.pc = "idle"
    /\ pages.calls < MaxChecks
    /\ pages' = [pages EXCEPT !.pc = "new_page", !.calls = @ + 1,
                              !.result = "none"]
    /\ UNCHANGED <<assistant_vars, cm, fs>>

\* poller.py:56  browser.new_page()
NewPage ==
    /\ pages.pc = "new_page"
    /\ \/ pages' = [pages EXCEPT !.pc = "headers", !.open = @ + 1]
       \/ pages' = CheckFails
    /\ UNCHANGED <<assistant_vars, cm, fs>>

\* poller.py:59-63  page.set_extra_http_headers
SetHeaders ==
    /\ pages.pc = "headers"
    /\ \/ pages' = [pages EXCEPT !.pc = "goto"]
       \/ pages' = CheckFails
    /\ UNCHANGED <<assistant_vars, cm, fs>>

\* poller.py:66-70  page.goto and the page load delay
Goto ==
    /\ pages.pc = "goto"
    /\ \/ pages' = [pages EXCEPT !.pc = "wait_for_selector"]
       \/ pages' = CheckFails
    /\ UNCHANGED <<assistant_vars, cm, fs>>

\* poller.py:73-79  wait_for_selector, its exception logged and dropped
WaitForSelector ==
    /\ pages.pc = "wait_for_selector"
    /\ pages' = [pages EXCEPT !.pc = "check_dates"]
    /\ UNCHANGED <<assistant_vars, cm, fs>>

\* poller.py:81  _check_dates_on_page, which catches its own exceptions
CheckDatesOnPage ==
    /\ pages.pc = "check_dates"
    /\ pages' = [pages EXCEPT !.pc = "close"]
    /\ UNCHANGED <<assistant_vars, cm, fs>>

\* poller.py:83-84  page.close(), then the dates returned; a close that
\* raises has closed the page or has not
ClosePage ==
    /\ pages.pc = "close"
    /\ \/ pages' = [pages EXCEPT !.pc = "idle", !.open = @ - 1,
                                 !.result = "dates"]
       \/ pages' = CheckFails
       \/ pages' = [CheckFails EXCEPT !.open = @ - 1]
    /\ UNCHANGED <<assistant_vars, cm, fs>>

PageInit ==
    /\ InitCommon
    /\ browser = TRUE
    /\ min_notification_interval = DefaultMinNotificationInterval
    /\ heartbeat_interval_hours = 0
    /\ interval_seconds = 150
    /\ scripted = FALSE
    /\ script = <<>>
    /\ disp = NoDispatcherCall
    /\ app = NoRun
    /\ cm = NoManager
    /\ pages = NoCheck
    /\ fs = NoSave

PageNext ==
    \/ CheckStart
    \/ NewPage
    \/ SetHeaders
    \/ Goto
    \/ WaitForSelector
    \/ CheckDatesOnPage
    \/ ClosePage

PageSpec == PageInit /\ [][PageNext]_vars

\* ------------------------------------------------------------------------
\* _save_config step by step: the config path and the backup beside it
\* ------------------------------------------------------------------------
\* A file is 0 when it is not there, a negative number when it is there
\* with part of a configuration, and n >= 1 when it holds the complete
\* configuration number n.

\* calls of _save_config followed in a run
MaxSaves == 4

\* config_manager.py:65  the file opened for writing and nothing in it yet
PartFile == 0 - 1

\* config_manager.py:73-78  the except clause: the backup, if there is one,
\* renamed to the config path and failure returned; the rename may raise in
\* its turn, and the exception leaves _save_config
SaveFails ==
    IF fs.backup = 0
    THEN fs' = [fs EXCEPT !.pc = "idle", !.result = "False"]
    ELSE \/ fs' = [fs EXCEPT !.pc = "idle", !.result = "False",
                             !.path = fs.backup, !.backup = 0]
         \/ fs' = [fs EXCEPT !.pc = "idle", !.result = "raised"]

\* config_manager.py:48-58  _save_config is called with a new configuration,
\* after _load_config has read the file
SaveStart ==
    /\ fs.pc = "idle"
    /\ fs.saves < MaxSaves
    /\ fs.path >= 1
    /\ fs' = [fs EXCEPT !.pc = "backup", !.saves = @ + 1, !.old = fs.path,
                        !.new = fs.path + 1, !.result = "none"]
    /\ UNCHANGED <<assistant_vars, cm, pages>>

\* config_manager.py:60-62  the config file renamed to the backup
MakeBackup ==
    /\ fs.pc = "backup"
    /\ \/ IF fs.path # 0
          THEN fs' = [fs EXCEPT !.pc = "open", !.backup = fs.path,
                                !.path = 0]
          ELSE fs' = [fs EXCEPT !.pc = "open"]
       \/ SaveFails
    /\ UNCHANGED <<assistant_vars, cm, pages>>

\* config_manager.py:65  open(config_path, 'w')
OpenForWriting ==
    /\ fs.pc = "open"
    /\ \/ fs' = [fs EXCEPT !.pc = "dump", !.path = PartFile]
       \/ SaveFails
    /\ UNCHANGED <<assistant_vars, cm, pages>>

\* config_manager.py:66  yaml.dump into the file, and the file closed
Dump ==
    /\ fs.pc = "dump"
    /\ \/ fs' = [fs EXCEPT !.pc = "unlink", !.path = fs.new]
       \/ SaveFails
    /\ UNCHANGED <<assistant_vars, cm, pages>>

\* config_manager.py:68-72  the backup removed, success returned
RemoveBackup ==
    /\ fs.pc = "unlink"
    /\ \/ fs' = [fs EXCEPT !.pc = "idle", !.backup = 0, !.result = "True"]
       \/ fs.backup # 0 /\ SaveFails
    /\ UNCHANGED <<assistant_vars, cm, pages>>

SaveInit ==
    /\ InitCommon
    /\ browser = FALSE
    /\ min_notification_interval = DefaultMinNotificationInterval
    /\ heartbeat_interval_hours = 0
    /\ interval_seconds = 150
    /\ scripted = FALSE
    /\ script = <<>>
    /\ disp = NoDispatcherCall
    /\ app = NoRun
    /\ cm = NoManager
    /\ pages = NoCheck
    /\ fs = NoSave

SaveNext ==
    \/ SaveStart
    \/ MakeBackup
    \/ OpenForWriting
    \/ Dump
    \/ RemoveBackup

SaveSpec == SaveInit /\ [][SaveNext]_vars

TypeOK ==
    /\ pc \in AwaitPoints \cup {"idle", "loop", "callback", "heartbeat",
                                "stopped", "cancelled"}
    /\ running \in BOOLEAN
    /\ now \in Nat
    /\ tick \in 0..(IF scripted THEN ScriptLen ELSE MaxTicks)
    /\ snapshot \subseteq Dates
    /\ previous_available_dates \subseteq Dates
    /\ last_notification_time \in {None} \cup 0..now
    /\ last_heartbeat_time \in {None} \cup 0..now
    /\ tick_payload \subseteq snapshot
    /\ tick_posts \in [notification : Nat, heartbeat : Nat]
    /\ suppressed \subseteq snapshot
    /\ hb_failed \in BOOLEAN
    /\ prev_call_dates \subseteq Dates
    /\ disp.calls \in 0..MaxDirectCalls

\* ------------------------------------------------------------------------
\* Properties
\* ------------------------------------------------------------------------

\* the unit-second elapsed test of the gate, written out
Elapsed(t, last) == t - last

\* the scenario of the spec's section 8: five ticks, one date
ScenarioSnapshots ==
    <<{}, {"2025-09-25"}, {"2025-09-25"}, {}, {"2025-09-25"}>>

\* the first five ticks of a scripted run were the scenario's, with the
\* minimum interval 0, every delivery succeeding and no exception
ScenarioPlayed ==
    /\ scripted
    /\ min_notification_interval = 0
    /\ ~faults
    /\ Len(log) >= 5
    /\ \A i \in 1..5 : log[i].snap = ScenarioSnapshots[i]

\* C1: in the scenario {}, {d}, {d}, {}, {d} with the minimum interval 0 and
\* every delivery succeeding, an availability notification is dispatched on
\* tick 2 and on tick 5 and on no other tick.
C1_ScenarioDispatches ==
    ScenarioPlayed =>
        /\ log[1].notif = "none"
        /\ log[2].notif = "ok"
        /\ log[3].notif = "none"
        /\ log[4].notif = "none"
        /\ log[5].notif = "ok"

\* C2: at the end of every tick (the loop is in its sleep),
\* previous_available_dates is the snapshot that tick acquired.
C2_PreviousIsSnapshot ==
    pc = "sleeping" => previous_available_dates = snapshot

\* C3: two successful availability dispatches are at least
\* min_notification_interval apart; a call with newly available dates goes on
\* to the dispatch exactly when no successful dispatch was made less than
\* the interval ago.
C3_RateLimit ==
    [][ /\ (last_sent # None /\ last_sent' # last_sent)
            => Elapsed(last_sent', last_sent) >= min_notification_interval
        /\ (/\ pc = "callback"
            /\ pc' # "callback"
            /\ snapshot \ previous_available_dates # {}
            /\ last_sent # None)
            => ((pc' \in {"dispatching", "sleeping_err"})
                  <=> Elapsed(now, last_sent) >= min_notification_interval)
      ]_vars

\* a second dispatch is in flight exactly one default interval after the
\* last successful one
C3_Witness ==
    /\ pc = "dispatching"
    /\ min_notification_interval = DefaultMinNotificationInterval
    /\ last_sent # None
    /\ Elapsed(call_now, last_sent) = DefaultMinNotificationInterval

\* C4: last_notification_time changes only in the step in which a dispatch
\* returned True, and a dispatch that returned False leaves it as it was.
C4_TimeOnlyOnSuccess ==
    [][ /\ last_notification_time' # last_notification_time
            => (pc = "dispatching" /\ notif_attempt' = "ok")
        /\ (pc = "dispatching" /\ notif_attempt' = "fail")
            => last_notification_time' = last_notification_time
      ]_vars

\* a dispatch failed on a tick after a successful one, and the time of the
\* successful one is still in place
C4_Witness ==
    /\ notif_attempt = "fail"
    /\ last_notification_time # None
    /\ last_notification_time < now

\* a dispatch failed before any succeeded: the time is still unset
C4_WitnessUnset ==
    /\ notif_attempt = "fail"
    /\ last_notification_time = None

\* the dispatch of the tick before this one failed
FailedOnPreviousTick ==
    last_failed.tick # 0 /\ last_failed.tick = tick - 1

\* the interval condition of the gate is satisfied
IntervalSatisfied ==
    \/ last_notification_time = None
    \/ Elapsed(now, last_notification_time) >= min_notification_interval

\* notify_if_needed runs on the tick after a failed dispatch, on the same
\* snapshot, with the interval condition satisfied
RetryCase ==
    /\ pc = "callback"
    /\ pc' # "callback"
    /\ FailedOnPreviousTick
    /\ snapshot = last_failed.snap
    /\ IntervalSatisfied

\* C5 as stated: after a tick whose dispatch of S failed, the next tick, on
\* the same snapshot and with the interval condition satisfied, dispatches S
\* again.
C5_RetryNextTick ==
    [][ RetryCase =>
            (pc' = "dispatching" /\ newly_available_dates' = last_failed.payload)
      ]_vars

\* C5 as amended: a failed dispatch leaves last_notification_time as it was
\* and still sets previous_available_dates to the snapshot, so the next tick,
\* on the same snapshot, finds nothing newly available and makes no dispatch
\* attempt, even with the interval condition satisfied.
C5_NoRetryOnSameSnapshot ==
    [][ /\ (pc = "dispatching" /\ notif_attempt' = "fail")
            => /\ last_notification_time' = last_notification_time
               /\ previous_available_dates' = snapshot
        /\ RetryCase
            => /\ pc' = "heartbeat"
               /\ notif_attempt' = "none"
               /\ UNCHANGED <<last_notification_time, last_sent>>
      ]_vars

\* the tick after a failed dispatch saw the same snapshot and went on to
\* the heartbeat check without a dispatch
C5_Witness ==
    /\ pc = "heartbeat"
    /\ FailedOnPreviousTick
    /\ snapshot = last_failed.snap
    /\ last_failed.payload # {}
    /\ notif_attempt = "none"
    /\ IntervalSatisfied

\* C6: the heartbeat check has run on every tick by the time the loop sleeps,
\* also on a tick whose snapshot is empty.
C6_HeartbeatEveryTick ==
    pc = "sleeping" => hb_evaluated

\* C7: with heartbeats enabled and nothing failing, once a full heartbeat
\* interval has passed since the start a heartbeat has been dispatched,
\* whatever the snapshots were.
C7_HeartbeatDispatched ==
    (/\ heartbeat_interval_hours > 0
     /\ ~faults
     /\ pc = "sleeping"
     /\ now >= heartbeat_interval_hours * SecondsPerHour)
        => last_heartbeat_time # None

\* C8: a tick whose snapshot acquisition failed ends in the loop's sleep with
\* no dispatch made and previous_available_dates empty.
C8_AcquisitionFailure ==
    acq_failed =>
        /\ pc \in {"sleeping", "loop", "polling", "stopped"}
        /\ pc = "sleeping" =>
             (notif_attempt = "none" /\ previous_available_dates = {})

\* the loop has ended
Terminated == pc \in {"stopped", "cancelled"}

\* a stop was requested while the loop was running, or the task was cancelled
StopSeen == stop_phase = "run" \/ cancel_requested

\* C9: an exception that reaches the handler of start_polling is followed by
\* one sleep of the poll interval and the next loop test, which starts the
\* next tick while the flag is set; the loop ends only after stop_polling or
\* cancellation.
C9_ExceptionsDoNotEndLoop ==
    [][ /\ (pc = "sleeping_err" /\ pc' # "sleeping_err" /\ ~cancel_requested')
            => (pc' = "loop" /\ now' = now + interval_seconds)
        /\ (pc = "loop" /\ pc' # "loop" /\ stop_phase # "run")
            => pc' = "polling"
        /\ (~Terminated /\ Terminated') => StopSeen'
      ]_vars

\* every tick of this run raised in the snapshot acquisition, and the loop
\* has started its third tick
C9_Witness ==
    /\ ~browser
    /\ faults
    /\ tick = 3
    /\ pc = "polling"

\* C10: once a stop was requested during the run, or the task was cancelled,
\* no further check_availability call starts, and the loop terminates.
C10_StopWithinOneTick ==
    /\ [][ StopSeen => (tick' = tick /\ (pc' = "polling" => pc = "polling"))
         ]_vars
    /\ (StopSeen ~> Terminated)

\* stop_polling was called during the sleep and the loop has ended without
\* another tick
C10_Witness ==
    /\ stop_phase = "run"
    /\ ~cancel_requested
    /\ pc = "stopped"
    /\ tick = 2

\* C11: whenever notify_if_needed hands a payload to send_notification, the
\* payload is the set of dates of the current call that are not in
\* previous_available_dates: no date of the previous set is in it, no new
\* date is missing from it, and it is not empty.
C11_PayloadIsDifference ==
    pc = "dispatching" =>
        /\ newly_available_dates = snapshot \ previous_available_dates
        /\ newly_available_dates # {}

\* a dispatch whose payload is a proper part of the current set
C11_Witness ==
    /\ pc = "dispatching"
    /\ newly_available_dates # snapshot
    /\ previous_available_dates \cap snapshot # {}
    /\ previous_available_dates \ snapshot = {}

\* tick k of the finished ticks is the first whose snapshot holds d
FirstAppearance(d, k) ==
    /\ d \in log[k].snap
    /\ \A j \in 1..(k - 1) : d \notin log[j].snap

\* d is in the snapshot of every tick from k to i
PresentThroughout(d, k, i) == \A j \in k..i : d \in log[j].snap

C13_ReappearanceDispatched ==
    (min_notification_interval = 0 /\ ~faults) =>
        \A d \in snapshot \ prev_call_dates :
            /\ pc = "dispatching" => d \in newly_available_dates
            /\ pc \notin {"idle", "callback", "dispatching"} =>
                   (notif_attempt = "ok" /\ d \in tick_payload)

\* the third call of a run: a dispatch succeeded on the first call, the
\* second call had the empty set, and both dates are being dispatched
C13_Witness ==
    /\ min_notification_interval = 0
    /\ ~faults
    /\ tick = 3
    /\ pc = "dispatching"
    /\ prev_call_dates = {}
    /\ last_sent # None
    /\ newly_available_dates = Dates

\* C14: a notify_if_needed call whose set holds no date outside
\* previous_available_dates returns without calling send_notification, and
\* leaves last_notification_time and last_heartbeat_time as they were.
C14_NoNewNoDispatch ==
    [][(pc = "callback" /\ snapshot \ previous_available_dates = {}) =>
          /\ pc' = "heartbeat"
          /\ notif_attempt' = "none"
          /\ last_sent' = last_sent
          /\ last_notification_time' = last_notification_time
          /\ last_heartbeat_time' = last_heartbeat_time]_vars

\* notify_if_needed has returned from a call with the same non-empty set
\* as the call before it, made after a successful dispatch
C14_Witness ==
    /\ pc = "heartbeat"
    /\ notif_attempt = "none"
    /\ snapshot # {}
    /\ snapshot = prev_call_dates
    /\ snapshot = previous_available_dates
    /\ last_notification_time # None
    /\ min_notification_interval = DefaultMinNotificationInterval
    /\ now - last_notification_time > min_notification_interval

\* C15: a call that brings new dates while less than
\* min_notification_interval has passed since the last successful POST makes
\* no dispatch and still sets previous_available_dates to the call's set;
\* and a date held back in this way is in no payload of a later call for as
\* long as it has been in the set of every call since.
C15_FlappingSuppressed ==
    [][/\ (/\ pc = "callback"
            /\ snapshot \ previous_available_dates # {}
            /\ last_sent # None
            /\ now - last_sent < min_notification_interval)
           => /\ pc' = "heartbeat"
              /\ notif_attempt' = "none"
              /\ previous_available_dates' = snapshot
       /\ pc' = "dispatching" => newly_available_dates' \cap suppressed' = {}
      ]_vars

\* the fourth call of a run: a dispatch succeeded on the first call, both
\* dates were held back by the third call at the latest, the grace period
\* is over, both dates are still available and nothing is dispatched
C15_Witness ==
    /\ min_notification_interval = DefaultMinNotificationInterval
    /\ tick = 4
    /\ pc = "heartbeat"
    /\ suppressed = Dates
    /\ notif_attempt = "none"
    /\ last_sent # None
    /\ now - last_sent >= min_notification_interval

\* C16: every call of send_notification or send_heartbeat returns a
\* boolean to its caller, whatever the POST comes to: True only when the
\* POST was made and answered with a non-error status, False whenever the
\* POST failed; the failure is never handed on as an exception.
C16_DispatcherReturnsBoolean ==
    disp.kind # "none" =>
        /\ disp.result \in {"True", "False"}
        /\ disp.result = "True" => (disp.outcome = "ok" /\ disp.posts = 1)
        /\ disp.outcome # "ok" => disp.result = "False"

\* send_notification called with dates to report, the POST timed out, and
\* the call returned False
C16_Witness ==
    /\ disp.kind = "send_notification"
    /\ disp.dates # {}
    /\ disp.outcome = "timeout"
    /\ disp.posts = 1
    /\ disp.result = "False"

C18_HeartbeatDisabled ==
    heartbeat_interval_hours = 0 =>
        /\ pc # "hb_dispatching"
        /\ tick_posts.heartbeat = 0
        /\ last_hb_sent = None
        /\ last_heartbeat_time = None
        /\ hb_evaluated => pc # "sleeping_err"

\* the heartbeat has just been evaluated with the interval at 0, more than
\* an hour after the start
C18_Witness ==
    /\ heartbeat_interval_hours = 0
    /\ hb_evaluated
    /\ pc = "sleeping"
    /\ now >= SecondsPerHour

\* C19: with a positive heartbeat interval, an evaluation dispatches a
\* heartbeat exactly when no heartbeat has succeeded yet or at least
\* heartbeat_interval_hours * 3600 seconds have passed since the last
\* successful one; so two successful heartbeats are never closer than one
\* interval.
C19_HeartbeatSchedule ==
    [][heartbeat_interval_hours > 0 =>
         /\ pc = "heartbeat" =>
               (pc' \in {"hb_dispatching", "sleeping_err"}
                  <=> \/ last_heartbeat_time = None
                      \/ Elapsed(now, last_hb_sent) >=
                             heartbeat_interval_hours * SecondsPerHour)
         /\ (last_hb_sent # None /\ last_hb_sent' # last_hb_sent)
               => Elapsed(last_hb_sent', last_hb_sent) >=
                      heartbeat_interval_hours * SecondsPerHour
      ]_vars

\* a second heartbeat being dispatched exactly one interval after the
\* first one succeeded
C19_Witness ==
    /\ heartbeat_interval_hours > 0
    /\ pc = "hb_dispatching"
    /\ last_hb_sent # None
    /\ Elapsed(call_now, last_hb_sent) =
           heartbeat_interval_hours * SecondsPerHour

\* C20: a heartbeat dispatch that fails leaves last_heartbeat_time as it
\* was, and the evaluation that follows a failed dispatch attempts the
\* heartbeat again.
C20_FailedHeartbeatRetried ==
    [][/\ (pc = "hb_dispatching" /\ pc' \in {"sleeping", "sleeping_err"}
            /\ hb_failed')
           => /\ last_heartbeat_time' = last_heartbeat_time
              /\ last_hb_sent' = last_hb_sent
       /\ (pc = "heartbeat" /\ hb_failed)
           => pc' \in {"hb_dispatching", "sleeping_err"}
      ]_vars

\* the heartbeat is attempted again on the tick after a failed attempt,
\* with the time of an earlier successful heartbeat still recorded
C20_Witness ==
    /\ pc = "hb_dispatching"
    /\ hb_failed
    /\ last_heartbeat_time # None
    /\ last_heartbeat_time = last_hb_sent
    /\ Elapsed(call_now, last_heartbeat_time) >
           heartbeat_interval_hours * SecondsPerHour

\* the positions of start_polling inside a tick
InTick == {"polling", "callback", "dispatching", "heartbeat",
           "hb_dispatching", "sleeping", "sleeping_err"}

\* C21: ticks do not overlap and are not queued.  A tick's
\* check_availability starts only from the loop test, when no dispatch of
\* an earlier tick is in progress and every earlier tick has slept its
\* whole interval; while a snapshot is being acquired, or the loop sleeps,
\* no dispatch is in progress; a dispatch is in progress only at the POST
\* of the one tick that is running.
C21_TicksDoNotOverlap ==
    /\ pc \in InTick => now = (tick - 1) * interval_seconds
    /\ pc = "loop" => now = tick * interval_seconds
    /\ pc \in {"dispatching", "hb_dispatching"} => call_now = now
    /\ pc \in {"loop", "polling", "callback", "heartbeat", "sleeping",
               "sleeping_err"} => call_now = None
    /\ pc = "polling" =>
           (tick_posts = NoPosts /\ notif_attempt = "none"
            /\ ~hb_evaluated /\ newly_available_dates = {})

\* the third tick acquires its snapshot; the tick before it dispatched an
\* availability notification and a heartbeat and slept its interval
C21_Witness ==
    /\ pc = "polling"
    /\ tick = 3
    /\ last_sent = now - interval_seconds
    /\ last_hb_sent = now - interval_seconds

\* C22: run calls test_webhook only when the logging level is DEBUG: at any
\* other level no test is in progress or made, and at DEBUG the test has
\* been made once by the time polling starts.
C22_TestWebhookOnlyInDebug ==
    /\ app.level # "DEBUG" => (app.pc # "testing" /\ app.tests = 0)
    /\ (app.level = "DEBUG" /\ app.pc = "waiting") => app.tests = 1

\* the run is followed no further: the loop test of the last tick followed
AtBound == pc = "loop" /\ tick = MaxTicks

\* C23: once the shutdown event is set, before or during polling, and the
\* poller has been entered, run cancels the polling task, calls
\* stop_polling once and returns: it never ends with an exception after the
\* poller was entered, it calls stop_polling at most once and only after
\* the polling task was cancelled and has ended, and a set shutdown event
\* always leads to the end of run.
C23_ShutdownReturns ==
    /\ [](/\ app.stops <= 1
          /\ browser => app.result # "raised"
          /\ app.result = "returned" =>
                /\ app.shutdown
                /\ cancel_requested
                /\ pc \in {"stopped", "cancelled"}
                /\ app.stops = 1
                /\ ~running)
    /\ (app.shutdown ~> (app.pc = "done" \/ AtBound))

\* run has returned after a shutdown that cancelled the polling task in
\* the sleep of the exception handler, on a later tick
C23_Witness ==
    /\ app.result = "returned"
    /\ app.stops = 1
    /\ pc = "cancelled"
    /\ tick >= 2

\* strictly ascending: sorted, no date twice
Ascending(dates) ==
    \A i \in 1..Len(dates) : \A j \in 1..Len(dates) :
      i < j => dates[i] < dates[j]

\* C24: after set_target_dates(L) has succeeded, get_target_dates returns
\* the elements of L, each once, in ascending order, and set_target_dates
\* applied to that list succeeds and leaves the file as it is.
C24_SetGetRoundTrip ==
    (cm.call.op = "set_target_dates" /\ cm.call.ok) =>
      LET got == get_target_dates(cm.file)
      IN  /\ got.ok
          /\ Range(got.dates) = Range(cm.call.dates)
          /\ Ascending(got.dates)
          /\ set_target_dates(cm.file, got.dates, TRUE) =
               [ok |-> TRUE, file |-> cm.file]

\* an unsorted list was set on a file that held other dates
C24_Witness ==
    /\ cm.call.op = "set_target_dates"
    /\ cm.call.ok
    /\ cm.call.dates = <<20250301, 20250102>>
    /\ cm.call.before.target_dates = <<20250101, 20250101>>

\* the call was given a string that is not a valid date
InvalidDateGiven ==
    \E i \in 1..Len(cm.call.dates) : ~validate_date_format(cm.call.dates[i])

\* C25: set_target_dates or add_target_dates given a list with an invalid
\* date, and set_ifttt_webhook_url given a URL that fails the IFTTT
\* validation, return failure and leave the config file as it was: nothing
\* of the list is applied.
C25_FailedValidationChangesNothing ==
    /\ (cm.call.op \in {"set_target_dates", "add_target_dates"}
        /\ InvalidDateGiven) =>
         (~cm.call.ok /\ cm.file = cm.call.before)
    /\ (cm.call.op = "set_ifttt_webhook_url"
        /\ ~validate_ifttt_webhook_url(cm.call.url)) =>
         (~cm.call.ok /\ cm.file = cm.call.before)

\* a list of one valid and one invalid date was given for a file that holds
\* dates
C25_Witness ==
    /\ cm.call.op = "set_target_dates"
    /\ cm.call.dates = <<20250301, 20250230>>
    /\ cm.call.before.target_dates = <<20250101, 20250102>>
    /\ cm.file.exists

\* C26: a successful set, add, remove or clear of the target dates changes
\* only the target_dates entry of the config file: the webhook section and
\* the polling section are as before.
C26_OnlyTargetDatesChange ==
    (cm.call.op \in {"set_target_dates", "add_target_dates",
                     "remove_target_dates", "clear_target_dates"}
     /\ cm.call.ok) =>
      [cm.file EXCEPT !.has_dates = cm.call.before.has_dates,
                      !.target_dates = cm.call.before.target_dates]
        = cm.call.before

\* a date was removed from a file with a webhook section
C26_Witness ==
    /\ cm.call.op = "remove_target_dates"
    /\ cm.call.ok
    /\ cm.call.before.has_webhook
    /\ cm.file.target_dates # cm.call.before.target_dates

\* C27: a successful add_target_dates(N) stores and returns the ascending
\* list of the dates of the file and of N, each once, and the same call
\* made again changes nothing and returns the same list; a successful
\* remove_target_dates(R) stores the ascending list of the dates of the file
\* that are not in R and returns those dates, as the very list it stored
\* when the list of the file was ascending.
C27_AddIsUnionRemoveIsDifference ==
    /\ (cm.call.op = "add_target_dates" /\ cm.call.ok) =>
         /\ cm.file.target_dates = cm.call.returned
         /\ Ascending(cm.call.returned)
         /\ Range(cm.call.returned) =
              Range(cm.call.before.target_dates) \cup Range(cm.call.dates)
         /\ add_target_dates(cm.file, cm.call.dates, TRUE) =
              [ok |-> TRUE, file |-> cm.file, dates |-> cm.call.returned]
    /\ (cm.call.op = "remove_target_dates" /\ cm.call.ok) =>
         /\ Ascending(cm.file.target_dates)
         /\ Range(cm.file.target_dates) =
              Range(cm.call.before.target_dates) \ Range(cm.call.dates)
         /\ Range(cm.call.returned) = Range(cm.file.target_dates)
         /\ Ascending(cm.call.before.target_dates) =>
              cm.call.returned = cm.file.target_dates

\* a new date and a date of the file were added to a file of two dates
C27_Witness ==
    /\ cm.call.op = "add_target_dates"
    /\ cm.call.ok
    /\ cm.call.dates = <<20250301, 20250101>>
    /\ cm.call.before.target_dates = <<20250101, 20250102>>
    /\ cm.call.returned = <<20250101, 20250102, 20250301>>

\* C28: when notify_if_needed finds a non-empty set of newly available
\* dates, it goes on to the dispatch exactly when last_notification_time is
\* unset or at least min_notification_interval seconds lie between it and
\* now; otherwise it returns without a dispatch.
C28_GateDecision ==
    [][(pc = "callback" /\ snapshot \ previous_available_dates # {}) =>
         (pc' \in {"dispatching", "sleeping_err"}
            <=> (\/ last_notification_time = None
                 \/ now - last_notification_time
                      >= min_notification_interval))]_vars

\* a dispatch is under way with exactly the interval elapsed since the
\* last notification
C28_Witness ==
    /\ pc = "dispatching"
    /\ last_notification_time # None
    /\ call_now - last_notification_time = min_notification_interval
    /\ min_notification_interval = DefaultMinNotificationInterval

\* C29: the steps of a tick come in one order. The handler is entered only
\* from the snapshot acquisition of the same tick, a dispatch of dates only
\* from the availability gate, the heartbeat check only from the gate or
\* from the dispatch of dates, a heartbeat dispatch only from the heartbeat
\* check, and the sleep only after them; the previous set changes only in
\* the gate and the dispatch of dates, and the heartbeat is evaluated only
\* at the heartbeat check, after the availability decision of its tick.
C29_TickOrder ==
    [][/\ pc' = "polling" => (pc = "loop" /\ tick' = tick + 1)
       /\ pc' = "callback" => (pc = "polling" /\ tick' = tick)
       /\ pc' = "dispatching" => (pc = "callback" /\ tick' = tick)
       /\ pc' = "heartbeat" =>
            (pc \in {"callback", "dispatching"} /\ tick' = tick)
       /\ pc' = "hb_dispatching" => (pc = "heartbeat" /\ tick' = tick)
       /\ pc' = "sleeping" =>
            (pc \in {"polling", "heartbeat", "hb_dispatching"}
             /\ tick' = tick)
       /\ pc' = "loop" =>
            (pc \in {"idle", "sleeping", "sleeping_err"} /\ tick' = tick)
       /\ previous_available_dates' # previous_available_dates =>
            pc \in {"callback", "dispatching"}
       /\ hb_evaluated' # hb_evaluated =>
            (pc = "heartbeat" \/ pc' = "polling")
       /\ last_heartbeat_time' # last_heartbeat_time =>
            pc = "hb_dispatching"]_<<pc, tick, previous_available_dates,
                                     hb_evaluated, last_heartbeat_time>>

\* a tick that made all its steps: dates dispatched, the heartbeat
\* dispatched, the sleep begun
C29_Witness ==
    /\ pc = "sleeping"
    /\ tick >= 2
    /\ notif_attempt = "ok"
    /\ hb_evaluated
    /\ tick_posts = [notification |-> 1, heartbeat |-> 1]

\* C30: a call of send_notification with an empty set of dates returns
\* False and makes no POST, whatever the transport would have answered.
C30_EmptySetNotPosted ==
    [][(/\ disp'.calls = disp.calls + 1
        /\ disp'.kind = "send_notification"
        /\ disp'.dates = {}) =>
         /\ disp'.result = "False"
         /\ disp'.posts = 0
         /\ disp'.total_posts = disp.total_posts]_vars

\* send_notification was called with an empty set, after a call that made
\* a POST, with a transport that would have answered
C30_Witness ==
    /\ disp.kind = "send_notification"
    /\ disp.dates = {}
    /\ disp.outcome = "ok"
    /\ disp.result = "False"
    /\ disp.posts = 0
    /\ disp.total_posts >= 1

\* C31: the snapshot of every tick, previous_available_dates, the payload
\* being dispatched and every payload dispatched hold target dates only.
C31_OnlyTargetDates ==
    /\ snapshot \subseteq Dates
    /\ previous_available_dates \subseteq Dates
    /\ newly_available_dates \subseteq Dates
    /\ tick_payload \subseteq Dates

\* a dispatch of both target dates went out and the previous set holds them
C31_Witness ==
    /\ tick_payload = Dates
    /\ notif_attempt = "ok"
    /\ previous_available_dates = Dates

\* C32: send_heartbeat_if_needed leaves previous_available_dates and
\* last_notification_time as they are, notify_if_needed leaves
\* last_heartbeat_time as it is, and a heartbeat that is switched on and
\* due is dispatched whatever the time of the last notification.
C32_PathsIndependent ==
    [][/\ pc \in {"heartbeat", "hb_dispatching"} =>
            /\ previous_available_dates' = previous_available_dates
            /\ last_notification_time' = last_notification_time
       /\ pc \in {"callback", "dispatching"} =>
            last_heartbeat_time' = last_heartbeat_time
       /\ (/\ pc = "heartbeat"
           /\ heartbeat_interval_hours # 0
           /\ \/ last_heartbeat_time = None
              \/ now - last_heartbeat_time
                   >= heartbeat_interval_hours * SecondsPerHour) =>
            pc' \in {"hb_dispatching", "sleeping_err"}]_vars

\* a heartbeat was sent on the tick that sent an availability notification,
\* inside the grace period of that notification
C32_Witness ==
    /\ pc = "sleeping"
    /\ notif_attempt = "ok"
    /\ last_notification_time = now
    /\ min_notification_interval = DefaultMinNotificationInterval
    /\ last_heartbeat_time = now
    /\ tick_posts.heartbeat = 1
    /\ tick >= 2

\* C33: whenever check_availability has returned, on the success path or
\* after an exception, no page it opened is open.
C33_NoPageLeftOpen ==
    pages.pc = "idle" => pages.open = 0

\* C34: every target_dates list the ConfigManager has written, by a
\* successful set, add, remove or clear, is accepted by the validation of
\* the assistant's Config.
C34_WrittenDatesAccepted ==
    (cm.call.op \in {"set_target_dates", "add_target_dates",
                     "remove_target_dates", "clear_target_dates"}
     /\ cm.call.ok) =>
      validate_target_dates(cm.file.target_dates)

\* C35: whenever _save_config has ended, it has returned success or
\* failure, the config path holds the complete old or the complete new
\* configuration, the old one after a failure, and after a success the new
\* one with no backup file left.
C35_SaveAllOrNothing ==
    (fs.pc = "idle" /\ fs.saves > 0) =>
      /\ fs.result \in {"True", "False"}
      /\ fs.path \in {fs.old, fs.new}
      /\ fs.result = "False" => fs.path = fs.old
      /\ fs.result = "True" => (fs.path = fs.new /\ fs.backup = 0)

\* C36: when the test of the webhook at startup has returned False, run
\* goes on to launch the poller, the poll loop is started unless run ends
\* first (the launch raises, or shutdown), and on every later tick a set of
\* newly available dates that the grace period lets through is dispatched
\* as after a successful test.
C36_FailedTestDoesNotStopMonitoring ==
    /\ [][/\ (/\ app.pc = "testing"
              /\ app'.pc # "testing"
              /\ ~app'.test_ok
              /\ app'.result # "raised") => app'.pc = "launching"
          /\ (/\ app.pc = "waiting"
              /\ ~app.test_ok
              /\ pc = "callback"
              /\ pc' # "callback"
              /\ snapshot \ previous_available_dates # {}
              /\ \/ last_notification_time = None
                 \/ now - last_notification_time
                      >= min_notification_interval) =>
               pc' \in {"dispatching", "sleeping_err"}]_vars
    /\ ((app.tests = 1 /\ ~app.test_ok /\ app.pc = "launching")
          ~> (pc # "idle" \/ app.pc = "done"))

\* after a failed test of the webhook the poll loop runs and a notification
\* has been sent on a later tick
C36_Witness ==
    /\ app.tests = 1
    /\ ~app.test_ok
    /\ app.pc = "waiting"
    /\ tick >= 2
    /\ notif_attempt = "ok"

====
